---- MODULE Spec2Model ----
(***************************************************************************)
(* A model of the web client of the video generation service:             *)
(*   - ApiClient.request (lib/api/client.ts): token injection, the retry  *)
(*     loop, the result it returns;                                        *)
(*   - the generate wizard (app/dashboard/generate/page.tsx), which loads  *)
(*     niches and creates jobs through the client;                         *)
(*   - the jobs store (useJobsStore, lib/api/client.ts).                   *)
(* Every await of the code is a step of its own.                           *)
(***************************************************************************)
EXTENDS Integers, Sequences, FiniteSets, TLC

VARIABLES
    \* ---- ApiClient.request, one call at a time
    pc,            \* "idle" | "token" | "fetch" | "delay" | "done" | "rejected"
    owner,         \* who awaits the call: "none" | "direct" | "loadNiches" | "handleGenerate"
    method,        \* HttpMethod
    path,          \* request path
    retries,       \* options.retries (default MAX_RETRIES)
    attempt,       \* loop counter of the retry loop
    lastError,     \* lastError of the retry loop (an Err record, kind "absent" = undefined)
    result,        \* the value the promise resolved to
    delays,        \* the delays awaited so far in this call, in ms
    \* ---- observation of the call (history, not program state)
    fetchCount,    \* number of fetch() calls of this call
    lastOutcome,   \* what the last fetch() produced
    allRetryable,  \* every attempt so far threw in fetch or got a 429/5xx response
    serverProcessed, \* number of POST /jobs requests of this call the server processed
    \* ---- generate wizard
    mounted, step, niches, loading, generating, selectedNiche, selectedPlatform,
    navigated,
    user,          \* useAuthStore().user
    \* ---- jobs store
    jobs, currentJob,
    lastOp,        \* the store operation called last (history, not program state)
    \* ---- role check (useAuthStore.hasRole)
    userRole,      \* get().user.role, "null" when get().user is null
    requiredRole,  \* the argument of the last hasRole call
    hasRoleResult, \* what the last hasRole call returned
    \* ---- configuration tables
    selectedTier,  \* position in DEFAULT_TIERS under comparison, 0 = none
    stepA, stepB,  \* two positions in PIPELINE_STEPS under comparison, 0 = none
    completedSteps, \* ids of the steps a run of the pipeline has completed
    \* ---- AuthService.signInWithGoogle, one call per session
    signInPc,      \* per session: "idle" | "popup" | "getDoc" | "create" | "success" | "failure"
    sawDoc,        \* per session: userDoc.exists() of the snapshot getDoc returned
    userDoc,       \* the Firestore document users/{uid}
    grants,        \* number of setDoc calls that wrote the document (history)
    overwritten,   \* a setDoc replaced a document that existed (history)
    \* ---- useAuthStore.initialize
    listening,     \* the onAuthStateChanged listener is registered
    userUnsubscribe, \* the closure variable: 0 = null, else the subscription it ends
    subscriptions, \* the onSnapshot listeners that are active
    opened,        \* number of onSnapshot listeners opened so far (history)
    authState,     \* the user Firebase reported last (history)
    firebaseUser, isLoading, isInitialized,
    storeError,    \* the store's `error` is not null
    \* ---- Firebase, sessionStorage and the auth calls of the store
    currentUser,   \* auth.currentUser of Firebase: a uid or "null"
    userId,        \* get().user.id, "null" when get().user is null
    persisted,     \* isInitialized as sessionStorage holds it (FALSE: nothing stored)
    resolved,      \* an auth callback of this page load has settled the user (history)
    awaitingSnapshot, \* the listener opened last has not delivered yet
    authCall,      \* the store's auth call in flight: "none" | "signIn" | "signOut"
    callAccount,   \* the account the sign-in call is for
    returned,      \* what the last sign-in call returned: "none" | "true" | "false"
    \* ---- routing
    cookie,        \* the value of the `session` cookie
    sentCookie,    \* the value sent with the request answered last
    reqPath,       \* the pathname of the request answered last
    origPath,      \* the pathname the navigation started with
    response,      \* the answer to that request
    hops,          \* redirects followed in this navigation
    fromLogin      \* the navigation is the router.push of the login page (history)

apiVars    == <<pc, owner, method, path, retries, attempt, lastError, result, delays,
                fetchCount, lastOutcome, allRetryable, serverProcessed>>
wizardVars == <<mounted, step, niches, loading, generating, selectedNiche,
                selectedPlatform, navigated, user>>
jobsVars   == <<jobs, currentJob, lastOp>>
roleVars   == <<userRole, requiredRole, hasRoleResult>>
tableVars  == <<selectedTier, stepA, stepB, completedSteps>>
signInVars == <<signInPc, sawDoc, userDoc, grants, overwritten>>
listenVars == <<listening, userUnsubscribe, subscriptions, opened, authState,
                firebaseUser, isLoading, isInitialized, storeError>>
sessionVars == <<currentUser, userId, persisted, resolved, awaitingSnapshot, authCall,
                 callAccount, returned>>
routeVars  == <<cookie, sentCookie, reqPath, origPath, response, hops, fromLogin>>
accountVars == <<roleVars, tableVars, signInVars, listenVars, sessionVars, routeVars>>
vars       == <<apiVars, wizardVars, jobsVars, accountVars>>

----------------------------------------------------------------------------
\* Bounds of the model

\* largest options.retries a direct caller passes
MaxRetriesOption == 3
\* largest user.credits
MaxCredits == 3
\* largest niche.estimatedCreditCost
MaxCost == 3
\* largest number of jobs held in the store
MaxJobs == 1
\* largest number of user-document listeners opened over the life of the page
MaxSubscriptions == 3

----------------------------------------------------------------------------
\* Program constants

MAX_RETRIES == 3
RETRY_DELAY == 1000
\* the fallback of `selectedNiche?.estimatedCreditCost || 3`
DefaultEstimatedCredits == 3

Undefined == "undefined"

\* ---- errors (ApiError); kind "absent" stands for undefined, kind "string" for
\* a body whose `error` is a plain string
Err(kind, code, message) == [kind |-> kind, code |-> code, message |-> message]
NoError == Err("absent", Undefined, Undefined)

INTERNAL_ERROR == "INTERNAL_ERROR"
EXTERNAL_SERVICE_ERROR == "EXTERNAL_SERVICE_ERROR"

UnexpectedError == Err("object", INTERNAL_ERROR, "An unexpected error occurred")
MaxRetriesExceeded == Err("object", INTERNAL_ERROR, "Max retries exceeded")

\* ---- what a response body can be
\*   json = FALSE         : not valid JSON, response.json() throws SyntaxError
\*   isNull = TRUE        : the JSON value null, data.error / data.data throw TypeError
\*   error                : the body's `error` member
\*   hasData              : the body has a non-null `data` member
Body(json, isNull, error, hasData) ==
    [json |-> json, isNull |-> isNull, error |-> error, hasData |-> hasData]

ServerErrors == {
    NoError,
    Err("string", Undefined, "Failed to connect Google Drive"),
    Err("object", "RATE_LIMITED", "Too many requests"),
    Err("object", "SERVICE_UNAVAILABLE", Undefined) }

NotJson  == Body(FALSE, FALSE, NoError, FALSE)
JsonNull == Body(TRUE, TRUE, NoError, FALSE)
\* a body the ok branch reads (`data.data ?? data`) and one the non-ok branch
\* reads (`data.error || ...`)
OkBodies    == {NotJson, JsonNull} \cup { Body(TRUE, FALSE, NoError, d) : d \in BOOLEAN }
ErrorBodies == {NotJson, JsonNull} \cup { Body(TRUE, FALSE, e, FALSE) : e \in ServerErrors }

Statuses == {200, 404, 429, 500}

\* ---- what one fetch() produces
Outcome(kind, status, body) == [kind |-> kind, status |-> status, body |-> body]
NoOutcome == Outcome("none", 0, NotJson)
NetworkFailure == Outcome("throw", 0, NotJson)
\* Response.ok
Ok(status) == status >= 200 /\ status <= 299
Outcomes ==
    {NetworkFailure}
    \cup { Outcome("response", s, b) : s \in { t \in Statuses : Ok(t) }, b \in OkBodies }
    \cup { Outcome("response", s, b) : s \in { t \in Statuses : ~Ok(t) }, b \in ErrorBodies }

\* ---- results (ApiResponse)
Result(success, data, error) == [success |-> success, data |-> data, error |-> error]
NoResult == Result(FALSE, Undefined, NoError)

Methods == {"GET", "POST", "PUT", "PATCH", "DELETE"}
Paths   == {"/jobs", "/niches"}

----------------------------------------------------------------------------
\* ApiClient.request

\* ApiClient.isRetryable
IsRetryable(status) == status = 429 \/ status >= 500

\* the argument of this.delay(...) after a failed attempt
BackoffDelay_Constant(k) == RETRY_DELAY
BackoffDelay(k) == RETRY_DELAY * 2^k

\* `data.error || { code: INTERNAL_ERROR, ... }` of the non-ok return
Truthy(e) == e.kind # "absent"
ErrorOfBody(body) == IF Truthy(body.error) THEN body.error ELSE UnexpectedError

\* `data.data ?? data` of the ok return
DataOfBody(body) == IF body.hasData THEN "data.data" ELSE "data"

\* `lastError || { code: INTERNAL_ERROR, message: 'Max retries exceeded' }`
FinalError_DropsLastError(e) == MaxRetriesExceeded
FinalError(e) == IF Truthy(e) THEN e ELSE MaxRetriesExceeded

\* the message of what the try block throws for an outcome, Undefined if it
\* completes normally: fetch() rejecting, response.json() rejecting on a body
\* that is not JSON, or a member access on the JSON value null
NullAccess == "Cannot read properties of null"
Thrown(o, att, r) ==
    IF o.kind = "throw" THEN "Failed to fetch"
    ELSE IF ~o.body.json THEN "Unexpected token < in JSON"
    ELSE IF ~Ok(o.status)
         THEN IF IsRetryable(o.status) /\ att < r - 1 THEN Undefined
              ELSE IF o.body.isNull THEN NullAccess ELSE Undefined
         ELSE IF o.body.isNull THEN NullAccess ELSE Undefined

\* the server processes a POST /jobs it answers 2xx, may or may not have
\* processed one that ended in a 5xx or in a network failure, and does not
\* process one it answers 4xx
MayProcess(o)  == o.kind = "throw" \/ Ok(o.status) \/ o.status >= 500
MustProcess(o) == o.kind = "response" /\ Ok(o.status)

\* the head of `for (attempt...; attempt < retries; ...)` and the return after it
EnterLoop(att, r, err) ==
    IF att < r
    THEN pc' = "fetch" /\ result' = NoResult
    ELSE pc' = "done" /\ result' = Result(FALSE, Undefined, FinalError(err))

\* request(), up to its first await
Request(own, m, p, skipAuth, r) ==
    /\ pc = "idle"
    /\ owner' = own /\ method' = m /\ path' = p /\ retries' = r
    /\ attempt' = 0 /\ lastError' = NoError /\ delays' = <<>>
    /\ fetchCount' = 0 /\ lastOutcome' = NoOutcome /\ allRetryable' = TRUE
    /\ serverProcessed' = 0
    /\ IF skipAuth THEN EnterLoop(0, r, NoError)
       ELSE pc' = "token" /\ result' = NoResult

\* `await authService.getIdToken()`: null (nobody signed in), a token, or a
\* rejection of user.getIdToken(), which nothing in request() catches
TokenStep ==
    /\ pc = "token"
    /\ \E t \in {"null", "token", "reject"} :
         IF t = "reject"
         THEN pc' = "rejected" /\ result' = NoResult
         ELSE EnterLoop(0, retries, NoError)
    /\ UNCHANGED <<owner, method, path, retries, attempt, lastError, delays,
                   fetchCount, lastOutcome, allRetryable, serverProcessed>>
    /\ UNCHANGED <<wizardVars, jobsVars, accountVars>>

\* one pass of the loop body: fetch, response.json(), and what follows up to
\* the next await or the return
FetchStep ==
    /\ pc = "fetch"
    /\ \E o \in Outcomes, processed \in BOOLEAN :
         /\ processed => (method = "POST" /\ path = "/jobs" /\ MayProcess(o))
         /\ (method = "POST" /\ path = "/jobs" /\ MustProcess(o)) => processed
         /\ fetchCount' = fetchCount + 1
         /\ lastOutcome' = o
         /\ allRetryable' = (allRetryable /\
                (o.kind = "throw" \/ (o.status = 429 \/ o.status >= 500)))
         /\ serverProcessed' = serverProcessed + (IF processed THEN 1 ELSE 0)
         /\ LET msg == Thrown(o, attempt, retries) IN
            IF msg # Undefined
            THEN \* catch (error)
                 LET e == Err("object", EXTERNAL_SERVICE_ERROR, msg) IN
                 /\ lastError' = e
                 /\ IF attempt < retries - 1
                    THEN /\ pc' = "delay"
                         /\ delays' = Append(delays, BackoffDelay(attempt))
                         /\ result' = NoResult
                    ELSE /\ pc' = "done"
                         /\ delays' = delays
                         /\ result' = Result(FALSE, Undefined, FinalError(e))
            ELSE /\ lastError' = lastError
                 /\ IF ~Ok(o.status)
                    THEN IF IsRetryable(o.status) /\ attempt < retries - 1
                         THEN /\ pc' = "delay"
                              /\ delays' = Append(delays, BackoffDelay(attempt))
                              /\ result' = NoResult
                         ELSE /\ pc' = "done"
                              /\ delays' = delays
                              /\ result' = Result(FALSE, Undefined, ErrorOfBody(o.body))
                    ELSE /\ pc' = "done"
                         /\ delays' = delays
                         /\ result' = Result(TRUE, DataOfBody(o.body), NoError)
    /\ UNCHANGED <<owner, method, path, retries, attempt>>
    /\ UNCHANGED <<wizardVars, jobsVars, accountVars>>

\* the timer of this.delay() fires; `continue` increments attempt and the loop
\* condition holds, since the delay was started with attempt < retries - 1
DelayElapsed ==
    /\ pc = "delay"
    /\ attempt' = attempt + 1
    /\ pc' = "fetch"
    /\ UNCHANGED <<owner, method, path, retries, lastError, result, delays,
                   fetchCount, lastOutcome, allRetryable, serverProcessed>>
    /\ UNCHANGED <<wizardVars, jobsVars, accountVars>>

\* a caller other than the wizard: any method, path and options
DirectRequest ==
    /\ \E m \in Methods, p \in Paths, skipAuth \in BOOLEAN,
          r \in (0 .. MaxRetriesOption) \cup {MAX_RETRIES} :
         Request("direct", m, p, skipAuth, r)
    /\ UNCHANGED <<wizardVars, jobsVars, accountVars>>

\* the caller's await of a direct request completes
DirectDone ==
    /\ owner = "direct" /\ pc \in {"done", "rejected"}
    /\ pc' = "idle" /\ owner' = "none"
    /\ UNCHANGED <<method, path, retries, attempt, lastError, result, delays,
                   fetchCount, lastOutcome, allRetryable, serverProcessed>>
    /\ UNCHANGED <<wizardVars, jobsVars, accountVars>>

----------------------------------------------------------------------------
\* The generate wizard (GeneratePage)

\* Niche, as far as the wizard reads it; present = FALSE stands for null
Niche(present, id, cost) == [present |-> present, id |-> id, estimatedCreditCost |-> cost]
NoNiche == Niche(FALSE, 0, 0)
\* the niches the server lists
Catalogue == { Niche(TRUE, c + 1, c) : c \in 0 .. MaxCost }

\* useAuthStore().user, as far as the wizard reads it; present = FALSE is null
User(present, credits) == [present |-> present, credits |-> credits]
NoUser == User(FALSE, 0)
Users == {NoUser} \cup { User(TRUE, c) : c \in 0 .. MaxCredits }

platforms == {"tiktok", "youtube_shorts", "instagram_reels"}
NoPlatform == "null"

\* `selectedNiche?.estimatedCreditCost || 3`: || takes the fallback for null
\* and for every falsy cost, 0 included
EstimatedCredits(niche) ==
    IF niche.present /\ niche.estimatedCreditCost # 0
    THEN niche.estimatedCreditCost
    ELSE DefaultEstimatedCredits

\* `(user?.credits || 0) >= estimatedCredits`
CanAfford_OffByOne(u, niche) ==
    (IF u.present THEN u.credits ELSE 0) + 1 >= EstimatedCredits(niche)
CanAfford(u, niche) ==
    (IF u.present THEN u.credits ELSE 0) >= EstimatedCredits(niche)

\* the `disabled` attribute of the Generate button
GenerateDisabled_IgnoresGenerating == ~CanAfford(user, selectedNiche)
GenerateDisabled == ~CanAfford(user, selectedNiche) \/ generating

\* useEffect(() => { loadNiches(); }, []): setLoading(true), then
\* nichesApi.list() = apiClient.get('/niches')
LoadNiches ==
    /\ ~mounted /\ ~navigated
    /\ mounted' = TRUE
    /\ loading' = TRUE
    /\ Request("loadNiches", "GET", "/niches", FALSE, MAX_RETRIES)
    /\ UNCHANGED <<step, niches, generating, selectedNiche, selectedPlatform,
                   navigated, user>>
    /\ UNCHANGED <<jobsVars, accountVars>>

\* loadNiches after its await: a rejection is caught and logged
LoadNichesDone ==
    /\ owner = "loadNiches" /\ pc \in {"done", "rejected"}
    /\ niches' = IF pc = "done" /\ result.success /\ result.data # Undefined
                 THEN Catalogue ELSE niches
    /\ loading' = FALSE
    /\ pc' = "idle" /\ owner' = "none"
    /\ UNCHANGED <<method, path, retries, attempt, lastError, result, delays,
                   fetchCount, lastOutcome, allRetryable, serverProcessed>>
    /\ UNCHANGED <<mounted, step, generating, selectedNiche, selectedPlatform,
                   navigated, user>>
    /\ UNCHANGED <<jobsVars, accountVars>>

\* click on a niche card (rendered when step = 'niche' and not loading)
SelectNiche_KeepsSelection ==
    /\ step = "niche" /\ ~loading /\ ~navigated
    /\ niches # {}
    /\ step' = "platform"
    /\ UNCHANGED <<mounted, niches, loading, generating, selectedNiche, selectedPlatform,
                   navigated, user>>
    /\ UNCHANGED <<apiVars, jobsVars, accountVars>>
SelectNiche ==
    /\ step = "niche" /\ ~loading /\ ~navigated
    /\ \E n \in niches : selectedNiche' = n
    /\ step' = "platform"
    /\ UNCHANGED <<mounted, niches, loading, generating, selectedPlatform,
                   navigated, user>>
    /\ UNCHANGED <<apiVars, jobsVars, accountVars>>

\* click on a platform card
SelectPlatform ==
    /\ step = "platform" /\ ~navigated
    /\ \E p \in platforms : selectedPlatform' = p
    /\ step' = "options"
    /\ UNCHANGED <<mounted, niches, loading, generating, selectedNiche,
                   navigated, user>>
    /\ UNCHANGED <<apiVars, jobsVars, accountVars>>

\* Continue on the options step
Continue ==
    /\ step = "options" /\ ~navigated
    /\ step' = "confirm"
    /\ UNCHANGED <<mounted, niches, loading, generating, selectedNiche,
                   selectedPlatform, navigated, user>>
    /\ UNCHANGED <<apiVars, jobsVars, accountVars>>

\* the Back buttons
Back ==
    /\ ~navigated
    /\ \/ step = "platform" /\ step' = "niche"
       \/ step = "options" /\ step' = "platform"
       \/ step = "confirm" /\ step' = "options"
    /\ UNCHANGED <<mounted, niches, loading, generating, selectedNiche,
                   selectedPlatform, navigated, user>>
    /\ UNCHANGED <<apiVars, jobsVars, accountVars>>

\* click on Generate: the button is rendered on the confirm step and fires
\* only when not disabled; handleGenerate up to its await of
\* jobsApi.create() = apiClient.post('/jobs', data)
HandleGenerate ==
    /\ step = "confirm" /\ ~navigated
    /\ ~GenerateDisabled
    /\ selectedNiche.present /\ selectedPlatform # NoPlatform
    /\ generating' = TRUE
    /\ Request("handleGenerate", "POST", "/jobs", FALSE, MAX_RETRIES)
    /\ UNCHANGED <<mounted, step, niches, loading, selectedNiche, selectedPlatform,
                   navigated, user>>
    /\ UNCHANGED <<jobsVars, accountVars>>

\* handleGenerate after its await: router.push on success with data, a
\* rejection is caught and logged, setGenerating(false) in every case
GenerateDone ==
    /\ owner = "handleGenerate" /\ pc \in {"done", "rejected"}
    /\ navigated' = (pc = "done" /\ result.success /\ result.data # Undefined)
    /\ generating' = FALSE
    /\ pc' = "idle" /\ owner' = "none"
    /\ UNCHANGED <<method, path, retries, attempt, lastError, result, delays,
                   fetchCount, lastOutcome, allRetryable, serverProcessed>>
    /\ UNCHANGED <<mounted, step, niches, loading, selectedNiche, selectedPlatform,
                   user>>
    /\ UNCHANGED <<jobsVars, accountVars>>

\* the auth store publishes another user (sign-in, sign-out, a new balance)
UserChanged ==
    /\ \E u \in Users : u # user /\ user' = u
    /\ UNCHANGED <<mounted, step, niches, loading, generating, selectedNiche,
                   selectedPlatform, navigated>>
    /\ UNCHANGED <<apiVars, jobsVars, accountVars>>

----------------------------------------------------------------------------
\* The jobs store (useJobsStore)

\* enum JobStatus, in declaration order
JobStatusOrder == <<
    "pending", "queued",
    "processing", "idea_generation", "script_generation", "scene_breakdown",
    "image_generation", "video_generation", "audio_selection", "text_overlay",
    "video_assembly", "platform_formatting", "exporting",
    "completed", "partial", "failed", "cancelled" >>
JobStatus == { JobStatusOrder[i] : i \in DOMAIN JobStatusOrder }

\* the "Final states" of the enum
FinalStatuses == {"completed", "partial", "failed", "cancelled"}

\* Job, as far as the store's operations read or write it
Job(id, status, progress) == [id |-> id, status |-> status, progress |-> progress]
JobIds == {"j1", "j2"}
ProgressValues == {0, 50, 100}
Jobs == { Job(i, s, p) : i \in JobIds, s \in JobStatus, p \in ProgressValues }
\* currentJob = null
NoJob == Job("null", "pending", 0)

\* Partial<Job>: a member that is absent leaves the job's member alone
Updates(hasStatus, status, hasProgress, progress) ==
    [hasStatus |-> hasStatus, status |-> status,
     hasProgress |-> hasProgress, progress |-> progress]
AllUpdates ==
    { Updates(FALSE, "pending", FALSE, 0) }
    \cup { Updates(TRUE, s, FALSE, 0) : s \in JobStatus }
    \cup { Updates(FALSE, "pending", TRUE, p) : p \in ProgressValues }
    \cup { Updates(TRUE, s, TRUE, p) : s \in JobStatus, p \in ProgressValues }

\* { ...job, ...updates }
Merge(job, updates) ==
    Job(job.id,
        IF updates.hasStatus THEN updates.status ELSE job.status,
        IF updates.hasProgress THEN updates.progress ELSE job.progress)

\* sequences of at most n elements of S
RECURSIVE SeqsUpTo(_, _)
SeqsUpTo(S, n) ==
    IF n = 0 THEN { <<>> }
    ELSE LET shorter == SeqsUpTo(S, n - 1) IN
         shorter \cup { Append(q, x) : q \in { r \in shorter : Len(r) = n - 1 }, x \in S }

setJobs ==
    /\ \E list \in SeqsUpTo(Jobs, MaxJobs) : jobs' = list
    /\ lastOp' = "setJobs"
    /\ UNCHANGED currentJob
    /\ UNCHANGED <<apiVars, wizardVars, accountVars>>

addJob ==
    /\ Len(jobs) < MaxJobs
    /\ \E job \in Jobs : jobs' = <<job>> \o jobs
    /\ lastOp' = "addJob"
    /\ UNCHANGED currentJob
    /\ UNCHANGED <<apiVars, wizardVars, accountVars>>

updateJob ==
    /\ \E jobId \in JobIds, updates \in AllUpdates :
         /\ jobs' = [i \in DOMAIN jobs |->
                        IF jobs[i].id = jobId THEN Merge(jobs[i], updates) ELSE jobs[i]]
         /\ currentJob' = IF currentJob # NoJob /\ currentJob.id = jobId
                          THEN Merge(currentJob, updates) ELSE currentJob
    /\ lastOp' = "updateJob"
    /\ UNCHANGED <<apiVars, wizardVars, accountVars>>

removeJob ==
    /\ \E jobId \in JobIds :
         /\ LET keep(job) == job.id # jobId IN jobs' = SelectSeq(jobs, keep)
         /\ currentJob' = IF currentJob # NoJob /\ currentJob.id = jobId
                          THEN NoJob ELSE currentJob
    /\ lastOp' = "removeJob"
    /\ UNCHANGED <<apiVars, wizardVars, accountVars>>

setCurrentJob ==
    /\ \E job \in Jobs \cup {NoJob} : currentJob' = job
    /\ lastOp' = "setCurrentJob"
    /\ UNCHANGED jobs
    /\ UNCHANGED <<apiVars, wizardVars, accountVars>>

\* reset: set(initialState)
resetJobs ==
    /\ jobs' = <<>> /\ currentJob' = NoJob
    /\ lastOp' = "reset"
    /\ UNCHANGED <<apiVars, wizardVars, accountVars>>

\* activeStatuses of getActiveJobs
activeStatuses == {
    "pending", "queued", "processing", "idea_generation", "script_generation",
    "scene_breakdown", "image_generation", "video_generation", "audio_selection",
    "text_overlay", "video_assembly", "platform_formatting", "exporting" }

\* getActiveJobs() on a store holding list
getActiveJobs(list) ==
    LET active(job) == job.status \in activeStatuses IN SelectSeq(list, active)

\* activeJobs of DashboardPage, whose length is the Active Jobs counter
DashboardActiveJobs(list) ==
    LET active(job) == job.status \notin {"completed", "failed", "cancelled"}
    IN SelectSeq(list, active)

----------------------------------------------------------------------------
\* Roles (useAuthStore.hasRole, ROLE_CONFIGS)

\* enum UserRole
UserRole == {"free", "starter", "pro", "agency", "admin"}

\* role values a stored document can carry that the enum does not know: a tier
\* added on the server, and a document without a role field
UnknownRoles == {"enterprise", "undefined"}
StoredRoles == UserRole \cup UnknownRoles

\* the local array of hasRole
roleHierarchy == <<"free", "starter", "pro", "agency", "admin">>

\* Array.prototype.indexOf: the 0-based position of the first match, -1 if none
IndexOf(arr, x) ==
    IF \E i \in DOMAIN arr : arr[i] = x
    THEN (CHOOSE i \in DOMAIN arr : arr[i] = x /\ \A j \in 1 .. (i - 1) : arr[j] # x) - 1
    ELSE -1

\* hasRole(role) with get().user.role = u ("null": get().user is null)
HasRole_Strict(u, role) ==
    IF u = "null" THEN FALSE
    ELSE IndexOf(roleHierarchy, u) > IndexOf(roleHierarchy, role)
HasRole(u, role) ==
    IF u = "null" THEN FALSE
    ELSE IndexOf(roleHierarchy, u) >= IndexOf(roleHierarchy, role)

\* setUser(user), also what the snapshot handler of initialize does with the
\* document it receives: the role is whatever the document holds
setUser ==
    /\ \E r \in StoredRoles \cup {"null"} : userRole' = r
    /\ lastOp' = "setUser"
    /\ UNCHANGED <<requiredRole, hasRoleResult>>
    /\ UNCHANGED <<jobs, currentJob>>
    /\ UNCHANGED <<apiVars, wizardVars, tableVars, signInVars, listenVars,
                   sessionVars, routeVars>>

\* a caller evaluates hasRole(r)
hasRole ==
    /\ \E r \in StoredRoles :
         /\ requiredRole' = r
         /\ hasRoleResult' = HasRole(userRole, r)
    /\ lastOp' = "hasRole"
    /\ UNCHANGED userRole
    /\ UNCHANGED <<jobs, currentJob>>
    /\ UNCHANGED <<apiVars, wizardVars, tableVars, signInVars, listenVars,
                   sessionVars, routeVars>>

\* the sentinel of the integer limits ("-1 = unlimited")
Unlimited == -1

\* a RoleConfig
RoleConfig(role, credits, jobsMax, res, nichesMax, allowed, prio, api, team, rpm, gpd) ==
    [role |-> role, creditsPerMonth |-> credits, maxConcurrentJobs |-> jobsMax,
     maxResolution |-> res, maxNiches |-> nichesMax,
     allowedPlatforms |-> allowed, priorityQueue |-> prio, apiAccess |-> api,
     teamAccess |-> team,
     rateLimit |-> [requestsPerMinute |-> rpm, generationsPerDay |-> gpd]]

AllPlatforms == {"tiktok", "youtube_shorts", "instagram_reels", "instagram_stories"}

ROLE_CONFIGS_ProNichesCapped ==
    [r \in UserRole |->
       CASE r = "free" ->
              RoleConfig("free", 5, 1, "720p", 2, {"tiktok"},
                         FALSE, FALSE, FALSE, 10, 5)
         [] r = "starter" ->
              RoleConfig("starter", 30, 2, "1080p", 5,
                         {"tiktok", "youtube_shorts", "instagram_reels"},
                         FALSE, FALSE, FALSE, 30, 30)
         [] r = "pro" ->
              RoleConfig("pro", 100, 5, "1080p", 3, AllPlatforms,
                         TRUE, FALSE, FALSE, 60, 100)
         [] r = "agency" ->
              RoleConfig("agency", 500, 20, "4k", -1, AllPlatforms,
                         TRUE, TRUE, TRUE, 120, 500)
         [] r = "admin" ->
              RoleConfig("admin", -1, -1, "4k", -1, AllPlatforms,
                         TRUE, TRUE, TRUE, -1, -1)]
ROLE_CONFIGS ==
    [r \in UserRole |->
       CASE r = "free" ->
              RoleConfig("free", 5, 1, "720p", 2, {"tiktok"},
                         FALSE, FALSE, FALSE, 10, 5)
         [] r = "starter" ->
              RoleConfig("starter", 30, 2, "1080p", 5,
                         {"tiktok", "youtube_shorts", "instagram_reels"},
                         FALSE, FALSE, FALSE, 30, 30)
         [] r = "pro" ->
              RoleConfig("pro", 100, 5, "1080p", -1, AllPlatforms,
                         TRUE, FALSE, FALSE, 60, 100)
         [] r = "agency" ->
              RoleConfig("agency", 500, 20, "4k", -1, AllPlatforms,
                         TRUE, TRUE, TRUE, 120, 500)
         [] r = "admin" ->
              RoleConfig("admin", -1, -1, "4k", -1, AllPlatforms,
                         TRUE, TRUE, TRUE, -1, -1)]

----------------------------------------------------------------------------
\* Subscription tiers and pipeline steps (DEFAULT_TIERS, PIPELINE_STEPS)

\* a SubscriptionTier, as far as it repeats a RoleConfig
Tier(id, credits, concurrent, maxNiches, resolution, api, priority) ==
    [id |-> id, creditsPerMonth |-> credits,
     limits |-> [maxConcurrentJobs |-> concurrent, maxNiches |-> maxNiches,
                 maxResolution |-> resolution, apiAccess |-> api,
                 priorityQueue |-> priority]]

DEFAULT_TIERS_ProFewerJobs == <<
    Tier("starter", 30, 2, 5, "1080p", FALSE, FALSE),
    Tier("pro", 100, 3, -1, "1080p", FALSE, TRUE),
    Tier("agency", 500, 20, -1, "4k", TRUE, TRUE) >>
DEFAULT_TIERS == <<
    Tier("starter", 30, 2, 5, "1080p", FALSE, FALSE),
    Tier("pro", 100, 5, -1, "1080p", FALSE, TRUE),
    Tier("agency", 500, 20, -1, "4k", TRUE, TRUE) >>

\* a PipelineStep: id, status, order and dependsOn
PipelineStep(id, status, order, dependsOn) ==
    [id |-> id, status |-> status, order |-> order, dependsOn |-> dependsOn]

PIPELINE_STEPS_AudioBeforeVideo == <<
    PipelineStep("idea_generation", "idea_generation", 1, {}),
    PipelineStep("script_generation", "script_generation", 2, {"idea_generation"}),
    PipelineStep("scene_breakdown", "scene_breakdown", 3, {"script_generation"}),
    PipelineStep("image_generation", "image_generation", 4, {"scene_breakdown"}),
    PipelineStep("audio_selection", "audio_selection", 5, {"script_generation"}),
    PipelineStep("video_generation", "video_generation", 6, {"image_generation"}),
    PipelineStep("text_overlay", "text_overlay", 7, {"video_generation"}),
    PipelineStep("video_assembly", "video_assembly", 8, {"text_overlay", "audio_selection"}),
    PipelineStep("platform_formatting", "platform_formatting", 9, {"video_assembly"}) >>
PIPELINE_STEPS == <<
    PipelineStep("idea_generation", "idea_generation", 1, {}),
    PipelineStep("script_generation", "script_generation", 2, {"idea_generation"}),
    PipelineStep("scene_breakdown", "scene_breakdown", 3, {"script_generation"}),
    PipelineStep("image_generation", "image_generation", 4, {"scene_breakdown"}),
    PipelineStep("video_generation", "video_generation", 5, {"image_generation"}),
    PipelineStep("audio_selection", "audio_selection", 6, {"script_generation"}),
    PipelineStep("text_overlay", "text_overlay", 7, {"video_generation"}),
    PipelineStep("video_assembly", "video_assembly", 8, {"text_overlay", "audio_selection"}),
    PipelineStep("platform_formatting", "platform_formatting", 9, {"video_assembly"}) >>

\* a reader looks up one tier of DEFAULT_TIERS
SelectTier ==
    /\ \E i \in DOMAIN DEFAULT_TIERS : selectedTier' = i
    /\ UNCHANGED <<stepA, stepB, completedSteps>>
    /\ UNCHANGED <<apiVars, wizardVars, jobsVars, roleVars, signInVars, listenVars,
                   sessionVars, routeVars>>

\* a reader looks up two steps of PIPELINE_STEPS
SelectSteps ==
    /\ \E i, j \in DOMAIN PIPELINE_STEPS : stepA' = i /\ stepB' = j
    /\ UNCHANGED <<selectedTier, completedSteps>>
    /\ UNCHANGED <<apiVars, wizardVars, jobsVars, roleVars, signInVars, listenVars,
                   sessionVars, routeVars>>

\* the dependsOn of a step
DependsOn_AndItself(s) == s.dependsOn \cup {s.id}
DependsOn(s) == s.dependsOn

\* the steps of PIPELINE_STEPS a run has not completed, and among them the one
\* of least `order`, which a run in ascending order starts next
RemainingSteps ==
    { i \in DOMAIN PIPELINE_STEPS : PIPELINE_STEPS[i].id \notin completedSteps }
NextStepToRun ==
    PIPELINE_STEPS[CHOOSE i \in RemainingSteps :
        \A j \in RemainingSteps : PIPELINE_STEPS[i].order <= PIPELINE_STEPS[j].order]

\* a run in ascending `order` starts its next step, which completes
RunStep ==
    /\ RemainingSteps # {}
    /\ completedSteps' = completedSteps \cup {NextStepToRun.id}
    /\ UNCHANGED <<selectedTier, stepA, stepB>>
    /\ UNCHANGED <<apiVars, wizardVars, jobsVars, roleVars, signInVars, listenVars,
                   sessionVars, routeVars>>

\* a run of another job begins
StartRun ==
    /\ completedSteps # {}
    /\ completedSteps' = {}
    /\ UNCHANGED <<selectedTier, stepA, stepB>>
    /\ UNCHANGED <<apiVars, wizardVars, jobsVars, roleVars, signInVars, listenVars,
                   sessionVars, routeVars>>

----------------------------------------------------------------------------
\* Sign-in with Google (AuthService.signInWithGoogle, createUserDocument)

\* the places a user signs in from at the same time (tabs, devices)
Sessions == {"s1", "s2"}

\* `credits: 5, // Free tier credits`
FreeTierCredits == 5

\* users/{uid}, as far as createUserDocument and the backend write it
UserDoc(exists, role, status, credits, lifetimeCredits) ==
    [exists |-> exists, role |-> role, status |-> status, credits |-> credits,
     lifetimeCredits |-> lifetimeCredits]
NoDoc == UserDoc(FALSE, "free", "pending_verification", 0, 0)

\* userData of createUserDocument
NewUserDoc ==
    UserDoc(TRUE, "free", "pending_verification", FreeTierCredits, FreeTierCredits)

\* signInWithGoogle(), up to `await signInWithPopup(...)`
SignInWithGoogle(s) ==
    /\ signInPc[s] = "idle"
    /\ signInPc' = [signInPc EXCEPT ![s] = "popup"]
    /\ UNCHANGED <<sawDoc, userDoc, grants, overwritten>>
    /\ UNCHANGED <<apiVars, wizardVars, jobsVars, roleVars, tableVars, listenVars,
                   sessionVars, routeVars>>

\* the popup resolves with a credential, or rejects and handleAuthError
\* returns the failure
PopupSettled(s) ==
    /\ signInPc[s] = "popup"
    /\ \E ok \in BOOLEAN :
         signInPc' = [signInPc EXCEPT ![s] = IF ok THEN "getDoc" ELSE "failure"]
    /\ UNCHANGED <<sawDoc, userDoc, grants, overwritten>>
    /\ UNCHANGED <<apiVars, wizardVars, jobsVars, roleVars, tableVars, listenVars,
                   sessionVars, routeVars>>

\* `await getDoc(...)` settles. Resolved, `if (!userDoc.exists())` is
\* evaluated: createUserDocument is entered, up to its `await setDoc(...)`, or
\* success is returned. Rejected, handleAuthError returns the failure.
GetDocSettled(s) ==
    /\ signInPc[s] = "getDoc"
    /\ \E ok \in BOOLEAN :
         IF ok
         THEN /\ sawDoc' = [sawDoc EXCEPT ![s] = userDoc.exists]
              /\ signInPc' = [signInPc EXCEPT
                                ![s] = IF userDoc.exists THEN "success" ELSE "create"]
         ELSE /\ sawDoc' = sawDoc
              /\ signInPc' = [signInPc EXCEPT ![s] = "failure"]
    /\ UNCHANGED <<userDoc, grants, overwritten>>
    /\ UNCHANGED <<apiVars, wizardVars, jobsVars, roleVars, tableVars, listenVars,
                   sessionVars, routeVars>>

\* `await setDoc(userRef, {...userData, ...})` settles: the document is
\* replaced by userData and success is returned, or the write is rejected and
\* handleAuthError returns the failure
SetDocSettled(s) ==
    /\ signInPc[s] = "create"
    /\ \E ok \in BOOLEAN :
         IF ok
         THEN /\ userDoc' = NewUserDoc
              /\ grants' = grants + 1
              /\ overwritten' = (overwritten \/ userDoc.exists)
              /\ signInPc' = [signInPc EXCEPT ![s] = "success"]
         ELSE /\ UNCHANGED <<userDoc, grants, overwritten>>
              /\ signInPc' = [signInPc EXCEPT ![s] = "failure"]
    /\ UNCHANGED sawDoc
    /\ UNCHANGED <<apiVars, wizardVars, jobsVars, roleVars, tableVars, listenVars,
                   sessionVars, routeVars>>

\* the backend charges a job to the user: one credit less
BackendCharge ==
    /\ userDoc.exists /\ userDoc.credits > 0
    /\ userDoc' = [userDoc EXCEPT !.credits = @ - 1]
    /\ UNCHANGED <<signInPc, sawDoc, grants, overwritten>>
    /\ UNCHANGED <<apiVars, wizardVars, jobsVars, roleVars, tableVars, listenVars,
                   sessionVars, routeVars>>

----------------------------------------------------------------------------
\* The auth listener and the auth calls of the store (useAuthStore, AuthProvider)

Uids == {"u1", "u2"}

\* an active onSnapshot listener: which one, and on whose document
Subscription(id, uid) == [id |-> id, uid |-> uid]

\* `if (userUnsubscribe) { userUnsubscribe(); userUnsubscribe = null; }` of the
\* auth callback: the listeners left active
UnsubscribePrevious_Skipped(subs, unsub) == subs
UnsubscribePrevious(subs, unsub) == { s \in subs : s.id # unsub }

\* isAuthenticated()
IsAuthenticated == user.present /\ firebaseUser # "null"

\* what AuthProvider renders: the children, or else the loading state
ChildrenRendered == isInitialized

\* the effect of AuthProvider runs: initialize() registers the auth listener
\* and starts with `userUnsubscribe = null`; Firebase owes the new listener
\* the current auth state
Initialize ==
    /\ ~listening
    /\ listening' = TRUE
    /\ userUnsubscribe' = 0
    /\ authState' = "none"
    /\ UNCHANGED <<subscriptions, opened, firebaseUser, isLoading, isInitialized,
                   storeError>>
    /\ UNCHANGED sessionVars
    /\ UNCHANGED <<apiVars, wizardVars, jobsVars, roleVars, tableVars, signInVars,
                   routeVars>>

\* Firebase reports every change of the signed-in account to a registered
\* listener, in order: the account changes again only after the listener has
\* been told of the last change
AuthReported == ~listening \/ authState = currentUser

\* the account signed in with Firebase changes from outside the page (another
\* tab signs in or out; the auth state is shared between tabs)
FirebaseAuthChanged ==
    /\ AuthReported
    /\ \E u \in (Uids \cup {"null"}) \ {currentUser} : currentUser' = u
    /\ UNCHANGED <<userId, persisted, resolved, awaitingSnapshot, authCall,
                   callAccount, returned>>
    /\ UNCHANGED listenVars
    /\ UNCHANGED <<apiVars, wizardVars, jobsVars, roleVars, tableVars, signInVars,
                   routeVars>>

\* Firebase reports the auth state to the listener, once after registration and
\* then whenever the signed-in account is another than the one reported last:
\* the callback given to onAuthChange, which has no await and so runs in one
\* piece. Every set() of the store also writes isInitialized to sessionStorage.
AuthChange ==
    /\ listening
    /\ authState # currentUser
    /\ LET u == currentUser
           remaining == UnsubscribePrevious(subscriptions, userUnsubscribe) IN
         /\ authState' = u
         /\ firebaseUser' = u
         /\ IF u # "null"
            THEN /\ opened < MaxSubscriptions
                 /\ opened' = opened + 1
                 /\ subscriptions' = remaining \cup {Subscription(opened + 1, u)}
                 /\ userUnsubscribe' = opened + 1
                 /\ awaitingSnapshot' = TRUE
                 /\ isLoading' = TRUE
                 /\ UNCHANGED <<user, userId, isInitialized, resolved>>
            ELSE /\ opened' = opened
                 /\ subscriptions' = remaining
                 /\ userUnsubscribe' = 0
                 /\ awaitingSnapshot' = FALSE
                 /\ user' = NoUser /\ userId' = "null"
                 /\ isLoading' = FALSE
                 /\ isInitialized' = TRUE
                 /\ resolved' = TRUE
    /\ persisted' = isInitialized'
    /\ UNCHANGED <<listening, storeError>>
    /\ UNCHANGED <<currentUser, authCall, callAccount, returned>>
    /\ UNCHANGED <<mounted, step, niches, loading, generating, selectedNiche,
                   selectedPlatform, navigated>>
    /\ UNCHANGED <<apiVars, jobsVars, roleVars, tableVars, signInVars, routeVars>>

\* an active listener delivers: the document, its absence, or an error
Snapshot ==
    /\ subscriptions # {}
    /\ \E s \in subscriptions, kind \in {"exists", "missing", "error"} :
         /\ isLoading' = FALSE
         /\ isInitialized' = TRUE
         /\ CASE kind = "exists" ->
                   /\ \E u \in Users \ {NoUser} : user' = u
                   /\ userId' = s.uid
                   /\ UNCHANGED storeError
              [] kind = "missing" ->
                   /\ user' = NoUser /\ userId' = "null"
                   /\ UNCHANGED storeError
              [] kind = "error" ->
                   /\ storeError' = TRUE
                   /\ UNCHANGED <<user, userId>>
    /\ awaitingSnapshot' = FALSE
    /\ resolved' = TRUE
    /\ persisted' = TRUE
    /\ UNCHANGED <<listening, userUnsubscribe, subscriptions, opened, authState,
                   firebaseUser>>
    /\ UNCHANGED <<currentUser, authCall, callAccount, returned>>
    /\ UNCHANGED <<mounted, step, niches, loading, generating, selectedNiche,
                   selectedPlatform, navigated>>
    /\ UNCHANGED <<apiVars, jobsVars, roleVars, tableVars, signInVars, routeVars>>

\* the cleanup initialize returned, run by the effect of AuthProvider
Cleanup ==
    /\ listening
    /\ listening' = FALSE
    /\ subscriptions' = { s \in subscriptions : s.id # userUnsubscribe }
    /\ awaitingSnapshot' = FALSE
    /\ UNCHANGED <<userUnsubscribe, opened, authState, firebaseUser, isLoading,
                   isInitialized, storeError>>
    /\ UNCHANGED <<currentUser, userId, persisted, resolved, authCall, callAccount,
                   returned>>
    /\ UNCHANGED <<apiVars, wizardVars, jobsVars, roleVars, tableVars, signInVars,
                   routeVars>>

\* the page is loaded anew in the same browser session: listeners and calls of
\* the old page are gone, the store starts from initialState and persist
\* merges what sessionStorage holds (isInitialized); Firebase keeps its account
Reload ==
    /\ listening' = FALSE /\ userUnsubscribe' = 0 /\ subscriptions' = {}
    /\ awaitingSnapshot' = FALSE
    /\ authCall' = "none" /\ returned' = "none"
    /\ user' = NoUser /\ userId' = "null" /\ firebaseUser' = "null"
    /\ isLoading' = TRUE /\ storeError' = FALSE
    /\ isInitialized' = persisted
    /\ resolved' = FALSE
    /\ UNCHANGED <<opened, authState, currentUser, persisted, callAccount>>
    /\ UNCHANGED <<mounted, step, niches, loading, generating, selectedNiche,
                   selectedPlatform, navigated>>
    /\ UNCHANGED <<apiVars, jobsVars, roleVars, tableVars, signInVars, routeVars>>

\* signInWithEmail, signInWithGoogle or signUpWithEmail of the store, up to the
\* await of the authService call
StoreSignIn ==
    /\ authCall = "none"
    /\ \E a \in Uids : callAccount' = a
    /\ authCall' = "signIn" /\ returned' = "none"
    /\ isLoading' = TRUE /\ storeError' = FALSE
    /\ persisted' = isInitialized
    /\ UNCHANGED <<listening, userUnsubscribe, subscriptions, opened, authState,
                   firebaseUser, isInitialized>>
    /\ UNCHANGED <<currentUser, userId, resolved, awaitingSnapshot>>
    /\ UNCHANGED <<apiVars, wizardVars, jobsVars, roleVars, tableVars, signInVars,
                   routeVars>>

\* the authService call settles: on success the account is signed in with
\* Firebase and true is returned, with no set(); on failure isLoading is
\* cleared, error is set to the message and false is returned
StoreSignInSettled ==
    /\ authCall = "signIn"
    /\ authCall' = "none"
    /\ \E ok \in BOOLEAN :
         IF ok
         THEN /\ AuthReported
              /\ currentUser' = callAccount
              /\ returned' = "true"
              /\ UNCHANGED <<isLoading, storeError, persisted>>
         ELSE /\ currentUser' = currentUser
              /\ returned' = "false"
              /\ isLoading' = FALSE /\ storeError' = TRUE
              /\ persisted' = isInitialized
    /\ UNCHANGED <<listening, userUnsubscribe, subscriptions, opened, authState,
                   firebaseUser, isInitialized>>
    /\ UNCHANGED <<userId, resolved, awaitingSnapshot, callAccount>>
    /\ UNCHANGED <<apiVars, wizardVars, jobsVars, roleVars, tableVars, signInVars,
                   routeVars>>

\* signOut of the store, up to `await authService.signOut()`
StoreSignOut ==
    /\ authCall = "none"
    /\ authCall' = "signOut"
    /\ isLoading' = TRUE
    /\ persisted' = isInitialized
    /\ UNCHANGED <<listening, userUnsubscribe, subscriptions, opened, authState,
                   firebaseUser, isInitialized, storeError>>
    /\ UNCHANGED <<currentUser, userId, resolved, awaitingSnapshot, callAccount,
                   returned>>
    /\ UNCHANGED <<apiVars, wizardVars, jobsVars, roleVars, tableVars, signInVars,
                   routeVars>>

\* authService.signOut() resolves, having signed out of Firebase or having
\* failed (it returns the failure, it does not throw), and the store forgets
\* the user either way
StoreSignOutSettled ==
    /\ authCall = "signOut"
    /\ authCall' = "none"
    /\ \E ok \in BOOLEAN :
         /\ ok => AuthReported
         /\ currentUser' = IF ok THEN "null" ELSE currentUser
    /\ user' = NoUser /\ userId' = "null" /\ firebaseUser' = "null"
    /\ isLoading' = FALSE
    /\ persisted' = isInitialized
    /\ UNCHANGED <<listening, userUnsubscribe, subscriptions, opened, authState,
                   isInitialized, storeError>>
    /\ UNCHANGED <<resolved, awaitingSnapshot, callAccount, returned>>
    /\ UNCHANGED <<mounted, step, niches, loading, generating, selectedNiche,
                   selectedPlatform, navigated>>
    /\ UNCHANGED <<apiVars, jobsVars, roleVars, tableVars, signInVars, routeVars>>

----------------------------------------------------------------------------
\* Routing (middleware, LoginPage)

\* pathnames, written as the pieces at which the prefixes and the matcher cut
\* them: <<"/dashboard", "-old">> is the pathname /dashboard-old
protectedRoutes == { <<"/dashboard">> }
authRoutes == { <<"/auth", "/login">>, <<"/auth", "/register">> }

Pathnames == {
    <<"/">>, <<"/pricing">>,
    <<"/dashboard">>, <<"/dashboard", "/jobs">>, <<"/dashboard", "-old">>,
    <<"/auth", "/login">>, <<"/auth", "/login", "/callback">>,
    <<"/auth", "/register">>, <<"/auth", "/reset-password">> }

\* String.prototype.startsWith
StartsWith(p, prefix) ==
    Len(p) >= Len(prefix) /\ SubSeq(p, 1, Len(prefix)) = prefix

\* a piece that begins a new path segment
Segment(piece) == piece \in {"/jobs", "/login", "/callback", "/register", "/reset-password"}

\* config.matcher: '/dashboard/:path*' and '/auth/:path*'
Matcher(p) ==
    /\ p[1] \in {"/dashboard", "/auth"}
    /\ Len(p) >= 2 => Segment(p[2])

\* request.cookies.get('session')?.value: no cookie, an empty value, a token
SessionValues == {"undefined", "", "token"}

\* what the middleware returns; redirect is the `redirect` query parameter
Response(kind, location, redirect) ==
    [kind |-> kind, location |-> location, redirect |-> redirect]
PassThrough == Response("next", <<>>, <<>>)

\* !session / session as conditions
SessionTruthy(session) == session \notin {"undefined", ""}

\* middleware(request)
Middleware_NoLoginRedirect(pathname, session) == PassThrough
Middleware(pathname, session) ==
    IF (\E route \in protectedRoutes : StartsWith(pathname, route))
       /\ ~SessionTruthy(session)
    THEN Response("redirect", <<"/auth", "/login">>, pathname)
    ELSE IF (\E route \in authRoutes : StartsWith(pathname, route))
            /\ SessionTruthy(session)
         THEN Response("redirect", <<"/dashboard">>, <<>>)
         ELSE PassThrough

\* a request as the server answers it: the middleware runs on the pathnames
\* the matcher selects
Answer(pathname, session) ==
    IF Matcher(pathname) THEN Middleware(pathname, session) ELSE PassThrough

\* the browser requests a pathname with the cookie it holds; handlers of the
\* page it leaves are gone
BrowserRequest ==
    /\ \E p \in Pathnames :
         /\ reqPath' = p /\ origPath' = p
         /\ response' = Answer(p, cookie)
    /\ sentCookie' = cookie
    /\ hops' = 0 /\ fromLogin' = FALSE
    /\ authCall' = "none" /\ returned' = "none"
    /\ UNCHANGED cookie
    /\ UNCHANGED <<currentUser, userId, persisted, resolved, awaitingSnapshot,
                   callAccount>>
    /\ UNCHANGED <<apiVars, wizardVars, jobsVars, roleVars, tableVars, signInVars,
                   listenVars>>

\* the browser follows the redirect it was answered with
FollowRedirect ==
    /\ response.kind = "redirect"
    /\ reqPath' = response.location
    /\ response' = Answer(response.location, cookie)
    /\ sentCookie' = cookie
    /\ hops' = hops + 1
    /\ UNCHANGED <<cookie, origPath, fromLogin>>
    /\ UNCHANGED <<apiVars, wizardVars, jobsVars, roleVars, tableVars, signInVars,
                   listenVars, sessionVars>>

\* the session cookie is set or cleared, between navigations
CookieChanged ==
    /\ response.kind = "next"
    /\ \E c \in SessionValues \ {cookie} : cookie' = c
    /\ UNCHANGED <<sentCookie, reqPath, origPath, response, hops, fromLogin>>
    /\ UNCHANGED <<apiVars, wizardVars, jobsVars, roleVars, tableVars, signInVars,
                   listenVars, sessionVars>>

\* the login page is what the browser shows
OnLoginPage == reqPath = <<"/auth", "/login">> /\ response.kind = "next"

\* handleEmailLogin / handleGoogleLogin, up to the await of the store's call
LoginSubmit == OnLoginPage /\ StoreSignIn

\* handleEmailLogin / handleGoogleLogin after the await: router.push('/dashboard')
\* if the call returned true
LoginReturned ==
    /\ OnLoginPage
    /\ returned # "none"
    /\ returned' = "none"
    /\ IF returned = "true"
       THEN /\ reqPath' = <<"/dashboard">> /\ origPath' = <<"/dashboard">>
            /\ response' = Answer(<<"/dashboard">>, cookie)
            /\ sentCookie' = cookie
            /\ hops' = 0 /\ fromLogin' = TRUE
       ELSE UNCHANGED <<sentCookie, reqPath, origPath, response, hops, fromLogin>>
    /\ UNCHANGED cookie
    /\ UNCHANGED <<currentUser, userId, persisted, resolved, awaitingSnapshot,
                   authCall, callAccount>>
    /\ UNCHANGED <<apiVars, wizardVars, jobsVars, roleVars, tableVars, signInVars,
                   listenVars>>

----------------------------------------------------------------------------
\* Specifications

Init ==
    /\ pc = "idle" /\ owner = "none" /\ method = "GET" /\ path = "/jobs"
    /\ retries = MAX_RETRIES /\ attempt = 0 /\ lastError = NoError
    /\ result = NoResult /\ delays = <<>>
    /\ fetchCount = 0 /\ lastOutcome = NoOutcome /\ allRetryable = TRUE
    /\ serverProcessed = 0
    /\ mounted = FALSE /\ step = "niche" /\ niches = {} /\ loading = TRUE
    /\ generating = FALSE /\ selectedNiche = NoNiche /\ selectedPlatform = NoPlatform
    /\ navigated = FALSE
    /\ user = NoUser
    /\ jobs = <<>> /\ currentJob = NoJob /\ lastOp = "create"
    /\ userRole = "null" /\ requiredRole = "free" /\ hasRoleResult = FALSE
    /\ selectedTier = 0 /\ stepA = 0 /\ stepB = 0
    /\ signInPc = [s \in Sessions |-> "idle"] /\ sawDoc = [s \in Sessions |-> FALSE]
    /\ userDoc = NoDoc /\ grants = 0 /\ overwritten = FALSE
    /\ listening = FALSE /\ userUnsubscribe = 0 /\ subscriptions = {} /\ opened = 0
    /\ authState = "null" /\ firebaseUser = "null"
    /\ isLoading = TRUE /\ isInitialized = FALSE /\ storeError = FALSE
    /\ completedSteps = {}
    /\ currentUser = "null" /\ userId = "null" /\ persisted = FALSE /\ resolved = FALSE
    /\ awaitingSnapshot = FALSE /\ authCall = "none" /\ callAccount = "u1"
    /\ returned = "none"
    /\ cookie = "undefined" /\ sentCookie = "undefined"
    /\ reqPath = <<"/">> /\ origPath = <<"/">>
    /\ response = PassThrough /\ hops = 0 /\ fromLogin = FALSE

\* the client called directly
NextApi == DirectRequest \/ TokenStep \/ FetchStep \/ DelayElapsed \/ DirectDone
SpecApi == Init /\ [][NextApi]_vars

\* the wizard and the calls it makes
Next ==
    \/ LoadNiches \/ LoadNichesDone \/ SelectNiche \/ SelectPlatform \/ Continue
    \/ Back \/ HandleGenerate \/ GenerateDone \/ UserChanged
    \/ TokenStep \/ FetchStep \/ DelayElapsed
Spec == Init /\ [][Next]_vars

\* the jobs store
NextJobs == setJobs \/ addJob \/ updateJob \/ removeJob \/ setCurrentJob \/ resetJobs
SpecJobs == Init /\ [][NextJobs]_vars

\* the role check
NextRoles == setUser \/ hasRole
SpecRoles == Init /\ [][NextRoles]_vars

\* readers of the configuration tables
NextTables == SelectTier \/ SelectSteps \/ RunStep \/ StartRun
SpecTables == Init /\ [][NextTables]_vars

\* sign-ins of one user from several sessions, and the backend
NextSignIn ==
    \/ \E s \in Sessions :
         SignInWithGoogle(s) \/ PopupSettled(s) \/ GetDocSettled(s) \/ SetDocSettled(s)
    \/ BackendCharge
SpecSignIn == Init /\ [][NextSignIn]_vars

\* the auth listener over the life of AuthProvider
NextListen == Initialize \/ FirebaseAuthChanged \/ AuthChange \/ Snapshot \/ Cleanup
SpecListen == Init /\ [][NextListen]_vars

\* the auth store over the page loads of a browser session
NextSession ==
    \/ Initialize \/ FirebaseAuthChanged \/ AuthChange \/ Snapshot \/ Cleanup \/ Reload
    \/ StoreSignIn \/ StoreSignInSettled \/ StoreSignOut \/ StoreSignOutSettled
SpecSession == Init /\ [][NextSession]_vars

\* navigation, the middleware and the login page
NextRoutes ==
    \/ BrowserRequest \/ FollowRedirect \/ CookieChanged
    \/ LoginSubmit \/ StoreSignInSettled \/ LoginReturned
SpecRoutes == Init /\ [][NextRoutes]_vars

----------------------------------------------------------------------------
\* Properties

\* one of the two shapes of a discriminated result
WellShaped(r) ==
    IF r.success
    THEN r.data # Undefined /\ r.error.kind = "absent"
    ELSE r.error.kind = "object" /\ r.data = Undefined

\* C1: every call of request resolves, never rejects, and resolves to
\* success=true with data and no error, or to success=false with an error
\* object and no data.
C1_ResolvesToDiscriminatedResult ==
    /\ pc # "rejected"
    /\ pc = "done" => WellShaped(result)

\* C2: once an attempt has received a non-ok response whose status is neither
\* 429 nor >= 500, the call has returned a failure: no delay is awaited and no
\* further fetch is issued, whatever the body.
C2_NoRetryOnOtherStatus ==
    (/\ lastOutcome.kind = "response"
     /\ ~Ok(lastOutcome.status)
     /\ ~(lastOutcome.status = 429 \/ lastOutcome.status >= 500))
    => (pc \in {"done", "idle"} /\ ~result.success /\ result.error.kind # "absent")

\* C3 as claimed: at most `retries` fetch calls are made, and a call whose
\* attempts all ended in a network error or a 429/5xx response returns one
\* failure: the error of the last response if the last attempt got a response,
\* otherwise EXTERNAL_SERVICE_ERROR with the message of the last exception.
C3_Original ==
    /\ fetchCount <= retries
    /\ (pc = "done" /\ fetchCount >= 1 /\ allRetryable)
       => /\ ~result.success
          /\ result.error =
                IF lastOutcome.kind = "response"
                THEN (IF lastOutcome.body.error.kind # "absent"
                      THEN lastOutcome.body.error ELSE UnexpectedError)
                ELSE Err("object", EXTERNAL_SERVICE_ERROR, "Failed to fetch")

\* the last attempt got a response whose body parsed to a JSON value other
\* than null
LastBodyParsed ==
    lastOutcome.kind = "response" /\ lastOutcome.body.json /\ ~lastOutcome.body.isNull

\* the message of the exception the last attempt ended in
LastExceptionMessage ==
    IF lastOutcome.kind = "throw" THEN "Failed to fetch"
    ELSE IF ~lastOutcome.body.json THEN "Unexpected token < in JSON"
    ELSE NullAccess

\* C3: at most `retries` fetch calls are made, and a call whose attempts all
\* ended in a network error or a 429/5xx response returns one failure: the
\* `error` of the last response's body (INTERNAL_ERROR if it has none) if the
\* last attempt got a response whose body parsed, otherwise
\* EXTERNAL_SERVICE_ERROR with the message of the last exception, which is a
\* fetch failure or a failure to read the body.
C3_TerminalErrorAfterRetries ==
    /\ fetchCount <= retries
    /\ (pc = "done" /\ fetchCount >= 1 /\ allRetryable)
       => /\ ~result.success
          /\ result.data = Undefined
          /\ result.error =
                IF LastBodyParsed
                THEN (IF lastOutcome.body.error.kind # "absent"
                      THEN lastOutcome.body.error ELSE UnexpectedError)
                ELSE Err("object", EXTERNAL_SERVICE_ERROR, LastExceptionMessage)

\* C3 witness: the default three attempts are used up, the last one answered
\* 500 with an error object, which is the error returned.
C3_Witness ==
    /\ pc = "done" /\ retries = MAX_RETRIES /\ fetchCount = MAX_RETRIES
    /\ allRetryable
    /\ lastOutcome.kind = "response" /\ lastOutcome.status = 500
    /\ result.error = Err("object", "RATE_LIMITED", "Too many requests")

\* C4: one call of jobsApi.create by the wizard has at most one POST /jobs
\* processed by the server.
C4_CreateAtMostOnce == serverProcessed <= 1

\* C5: every failure result carries an error with a code and a message.
C5_FailureHasCodeAndMessage ==
    (pc = "done" /\ ~result.success)
    => /\ result.error.kind = "object"
       /\ result.error.code # Undefined
       /\ result.error.message # Undefined

\* the signed-in user's credits are below the selected niche's estimated cost
CreditsBelowCost ==
    /\ user.present /\ selectedNiche.present
    /\ user.credits < selectedNiche.estimatedCreditCost

\* a step in which handleGenerate starts a create call
StartsCreate == owner # "handleGenerate" /\ owner' = "handleGenerate"

C7_CanAffordIsCreditsAtLeastCost ==
    (user.present /\ selectedNiche.present)
    => (CanAfford(user, selectedNiche)
        <=> user.credits >= selectedNiche.estimatedCreditCost)

\* the pipeline position of a status: its place in the declared order
Position(status) == CHOOSE i \in DOMAIN JobStatusOrder : JobStatusOrder[i] = status

\* a move to an earlier pipeline position, other than into failed, cancelled
\* or partial
Regresses(from, to) ==
    Position(to) < Position(from) /\ to \notin {"failed", "cancelled", "partial"}

\* C8: no updateJob call moves a stored job to an earlier pipeline position,
\* except into failed, cancelled or partial.
C8_StatusNeverRegresses ==
    [][lastOp' = "updateJob" =>
        \A i \in DOMAIN jobs : ~Regresses(jobs[i].status, jobs'[i].status)]_vars

\* C9: an updateJob call applied to a job whose status is not final leaves its
\* progress an integer in 0..100 that is not below its previous value.
C9_ProgressNonDecreasing ==
    [][lastOp' = "updateJob" =>
        \A i \in DOMAIN jobs :
            jobs[i].status \notin FinalStatuses
            => (jobs'[i].progress \in 0 .. 100
                /\ jobs'[i].progress >= jobs[i].progress)]_vars

\* C10: once a stored job is completed, failed or cancelled, no updateJob call
\* changes its status.
C10_TerminalAbsorbing ==
    [][lastOp' = "updateJob" =>
        \A i \in DOMAIN jobs :
            jobs[i].status \in {"completed", "failed", "cancelled"}
            => jobs'[i].status = jobs[i].status]_vars


----------------------------------------------------------------------------
\* Roles and configuration tables

\* the tier order free < starter < pro < agency < admin
TierRank(r) ==
    CASE r = "free" -> 1 [] r = "starter" -> 2 [] r = "pro" -> 3
      [] r = "agency" -> 4 [] r = "admin" -> 5

\* C11: with a signed-in user of a known role u, hasRole(r) for a known role r
\* returns true exactly when u is at or above r in the tier order, and with no
\* user hasRole(r) returns false for every r.
C11_HasRoleIsTierOrder ==
    lastOp = "hasRole" =>
        /\ (userRole \in UserRole /\ requiredRole \in UserRole) =>
               (hasRoleResult <=> TierRank(userRole) >= TierRank(requiredRole))
        /\ userRole = "null" => ~hasRoleResult

\* hasRole has answered for a pro user asked for starter
C11_Witness ==
    /\ lastOp = "hasRole"
    /\ userRole = "pro" /\ requiredRole = "starter" /\ hasRoleResult

\* C12: a user whose stored role is none of the five known roles passes
\* hasRole(free) and fails hasRole(r) for starter, pro, agency and admin.
C12_UnknownUserRoleIsFree ==
    (lastOp = "hasRole" /\ userRole \in UnknownRoles /\ requiredRole \in UserRole) =>
        (hasRoleResult <=> requiredRole = "free")

\* C13: for a signed-in user of a known role, hasRole(r) with r outside the five
\* known roles returns false.
C13_UnknownRequiredRoleDenied ==
    (lastOp = "hasRole" /\ userRole \in UserRole /\ requiredRole \notin UserRole) =>
        ~hasRoleResult

\* a >= b for limits in which -1 stands for no limit
AtLeast(a, b) == a = Unlimited \/ (b # Unlimited /\ a >= b)

\* the resolution ceilings 720p < 1080p < 4k
ResolutionRank(r) == CASE r = "720p" -> 1 [] r = "1080p" -> 2 [] r = "4k" -> 3

\* every entitlement of hi is at least that of lo
Entitles(hi, lo) ==
    /\ AtLeast(hi.creditsPerMonth, lo.creditsPerMonth)
    /\ AtLeast(hi.maxConcurrentJobs, lo.maxConcurrentJobs)
    /\ AtLeast(hi.maxNiches, lo.maxNiches)
    /\ AtLeast(hi.rateLimit.requestsPerMinute, lo.rateLimit.requestsPerMinute)
    /\ AtLeast(hi.rateLimit.generationsPerDay, lo.rateLimit.generationsPerDay)
    /\ ResolutionRank(hi.maxResolution) >= ResolutionRank(lo.maxResolution)
    /\ lo.allowedPlatforms \subseteq hi.allowedPlatforms

\* C14: reading -1 as no limit, a role at or above another in the tier order
\* has at least its creditsPerMonth, maxConcurrentJobs, maxNiches,
\* requestsPerMinute, generationsPerDay, resolution ceiling and allowed
\* platforms, and ROLE_CONFIGS[r].role = r.
C14_EntitlementsFollowTierOrder ==
    (userRole \in UserRole /\ requiredRole \in UserRole) =>
        /\ ROLE_CONFIGS[userRole].role = userRole
        /\ TierRank(userRole) >= TierRank(requiredRole) =>
               Entitles(ROLE_CONFIGS[userRole], ROLE_CONFIGS[requiredRole])

\* a role with a -1 limit has been compared with the capped role below it
C14_Witness ==
    /\ lastOp = "hasRole" /\ hasRoleResult
    /\ userRole = "pro" /\ requiredRole = "starter"
    /\ ROLE_CONFIGS[userRole].maxNiches = Unlimited

\* C15: every tier of DEFAULT_TIERS has the creditsPerMonth, maxConcurrentJobs,
\* maxNiches, maxResolution, apiAccess and priorityQueue of the ROLE_CONFIGS
\* entry of the role named by its id.
C15_TiersMatchRoleConfigs ==
    selectedTier # 0 =>
        LET t == DEFAULT_TIERS[selectedTier] IN
        /\ t.id \in UserRole
        /\ LET c == ROLE_CONFIGS[t.id] IN
           /\ t.creditsPerMonth = c.creditsPerMonth
           /\ t.limits.maxConcurrentJobs = c.maxConcurrentJobs
           /\ t.limits.maxNiches = c.maxNiches
           /\ t.limits.maxResolution = c.maxResolution
           /\ t.limits.apiAccess = c.apiAccess
           /\ t.limits.priorityQueue = c.priorityQueue

\* the pro tier, whose maxNiches is -1, has been looked up
C15_Witness == selectedTier # 0 /\ DEFAULT_TIERS[selectedTier].id = "pro"

\* the nine processing steps in the required forward order
RequiredSteps == <<
    "idea_generation", "script_generation", "scene_breakdown", "image_generation",
    "video_generation", "audio_selection", "text_overlay", "video_assembly",
    "platform_formatting" >>

\* C16: PIPELINE_STEPS lists exactly the nine processing steps in the required
\* order, with unique ids, `order` equal to the position (1..9, increasing),
\* each status the JobStatus named like the step, and the order of the steps
\* that of the JobStatus declaration.
C16_PipelineStepsInOrder ==
    (stepA # 0 /\ stepB # 0) =>
        LET a == PIPELINE_STEPS[stepA]
            b == PIPELINE_STEPS[stepB] IN
        /\ Len(PIPELINE_STEPS) = Len(RequiredSteps)
        /\ a.id = RequiredSteps[stepA]
        /\ a.order = stepA
        /\ a.status = a.id /\ a.status \in JobStatus
        /\ stepA # stepB => a.id # b.id
        /\ stepA < stepB =>
               /\ a.order < b.order
               /\ Position(a.status) < Position(b.status)

\* video_generation and audio_selection, neighbours in both orders, compared
C16_Witness == stepA = 5 /\ stepB = 6


----------------------------------------------------------------------------
\* Active jobs, first sign-in, backoff and the auth listener

\* the jobs a sequence of jobs holds
Range(list) == { list[i] : i \in DOMAIN list }

\* C17: whatever the store holds, a job whose status is completed, partial,
\* failed or cancelled is neither in getActiveJobs() nor in the jobs the
\* dashboard counts as active, and the two hold the same jobs.
C17_FinalJobsNeverActive ==
    /\ \A job \in Range(jobs) :
         job.status \in FinalStatuses =>
             /\ job \notin Range(getActiveJobs(jobs))
             /\ job \notin Range(DashboardActiveJobs(jobs))
    /\ getActiveJobs(jobs) = DashboardActiveJobs(jobs)

\* C18: over all interleavings of sign-ins of one user and backend charges, no
\* setDoc replaces an existing users/{uid}, so the free-tier grant is written
\* at most once.
C18_DocumentCreatedAtMostOnce == grants <= 1 /\ ~overwritten

\* C19: the i-th delay of a call is RETRY_DELAY * 2^(i-1) ms; attempt k is
\* fetched only after k delays have elapsed, a delay follows a failed attempt
\* only if another attempt is permitted, and the call ends with one delay less
\* than it made attempts.
C19_ExponentialBackoff ==
    /\ \A i \in DOMAIN delays : delays[i] = RETRY_DELAY * 2^(i - 1)
    /\ pc = "fetch" => (Len(delays) = attempt /\ fetchCount = attempt)
    /\ pc = "delay" =>
           /\ Len(delays) = attempt + 1 /\ fetchCount = attempt + 1
           /\ attempt + 1 < retries
           /\ \/ Thrown(lastOutcome, attempt, retries) # Undefined
              \/ IsRetryable(lastOutcome.status)
    /\ (pc = "done" /\ fetchCount > 0) =>
           (Len(delays) = fetchCount - 1 /\ fetchCount <= retries)

\* a call is about to make its third attempt, after a thrown error and a
\* retryable response
C19_Witness ==
    /\ pc = "fetch" /\ attempt = 2 /\ delays = <<1000, 2000>>
    /\ lastOutcome.kind = "response" /\ lastOutcome.body.json

\* C20: at most one user-document listener is active, it is the one the
\* closure can end and it is on the document of the user reported last; none
\* is active while signed out or after the cleanup, which also ends the auth
\* listener.
C20_AtMostOneSubscription ==
    /\ Cardinality(subscriptions) <= 1
    /\ \A s \in subscriptions : s.id = userUnsubscribe /\ s.uid = authState
    /\ authState = "null" => subscriptions = {}
    /\ ~listening => subscriptions = {}

\* the listener of a first user was replaced by that of a second
C20_Witness ==
    /\ listening /\ opened >= 2
    /\ subscriptions = {Subscription(opened, "u2")}


----------------------------------------------------------------------------
\* Page load, routing, the auth store's flags, the wizard and the pipeline

\* C21: in every page load the children of AuthProvider are rendered only
\* after an auth callback of that page load has settled the user (a loaded
\* document or null).
C21_NoChildrenBeforeResolved == ChildrenRendered => resolved

\* the pathnames of the model at or below /dashboard, and those that start
\* with /auth/login or /auth/register
DashboardPaths == { <<"/dashboard">>, <<"/dashboard", "/jobs">> }
LoginRegisterPaths ==
    { <<"/auth", "/login">>, <<"/auth", "/login", "/callback">>, <<"/auth", "/register">> }

\* C22 as stated: a pathname starting with /dashboard without a session
\* cookie is redirected to /auth/login with the pathname as `redirect`, one
\* starting with /auth/login or /auth/register with a session cookie is
\* redirected to /dashboard, every other request passes through, and a
\* navigation follows at most one redirect.
C22_Original ==
    /\ response =
         IF StartsWith(reqPath, <<"/dashboard">>) /\ sentCookie = "undefined"
         THEN Response("redirect", <<"/auth", "/login">>, reqPath)
         ELSE IF reqPath \in LoginRegisterPaths /\ sentCookie # "undefined"
              THEN Response("redirect", <<"/dashboard">>, <<>>)
              ELSE PassThrough
    /\ hops <= 1

\* C22: a request for /dashboard or a pathname below it with no or an empty
\* session cookie is redirected to /auth/login with the pathname as
\* `redirect`, one for a pathname starting with /auth/login or /auth/register
\* with a non-empty session cookie is redirected to /dashboard, every other
\* request passes through, and a navigation follows at most one redirect.
C22_MiddlewareDecision ==
    /\ response =
         IF reqPath \in DashboardPaths /\ sentCookie \in {"undefined", ""}
         THEN Response("redirect", <<"/auth", "/login">>, reqPath)
         ELSE IF reqPath \in LoginRegisterPaths /\ sentCookie = "token"
              THEN Response("redirect", <<"/dashboard">>, <<>>)
              ELSE PassThrough
    /\ hops <= 1

\* a request below /dashboard without a session was redirected to the login
\* page, which let it through
C22_Witness ==
    /\ origPath = <<"/dashboard", "/jobs">> /\ reqPath = <<"/auth", "/login">>
    /\ hops = 1 /\ response = PassThrough /\ sentCookie = "undefined"

\* C23: whenever isAuthenticated() is true, the stored user and the stored
\* Firebase user are the same account.
C23_AuthenticatedSameAccount == IsAuthenticated => userId = firebaseUser

\* C24: while isLoading is set, something that clears it is outstanding (the
\* effect that registers the listener, an auth state Firebase has yet to
\* report, the first delivery of the open subscription, or an auth call of
\* the store), and a sign-in call that returned false left error set and
\* isLoading cleared by it.
C24_LoadingIsCleared ==
    /\ isLoading =>
           \/ ~listening
           \/ authState # currentUser
           \/ awaitingSnapshot
           \/ authCall # "none"
    /\ returned = "false" => storeError

\* the selections fit the step
StepConsistent ==
    /\ step \in {"platform", "options", "confirm"} => selectedNiche.present
    /\ step \in {"options", "confirm"} => selectedPlatform # NoPlatform
    /\ owner = "handleGenerate" => (selectedNiche.present /\ selectedPlatform # NoPlatform)

\* the step moves forward by a selection or by Continue, and back by one
StepMoves ==
    step' # step =>
        \/ step = "niche" /\ step' = "platform" /\ selectedNiche'.present
        \/ step = "platform" /\ step' = "options" /\ selectedPlatform' # NoPlatform
        \/ step = "options" /\ step' = "confirm"
        \/ step = "confirm" /\ step' = "options"
        \/ step = "options" /\ step' = "platform"
        \/ step = "platform" /\ step' = "niche"

\* C25: in every reachable state a step after niche has a niche selected and
\* a step after platform has a platform selected, the step changes only along
\* niche -> platform -> options -> confirm and back by one, and a create call
\* is made with both selected.
C25_SelectionsFitStep == []StepConsistent /\ [][StepMoves]_vars

\* a create call is in flight after the user went back and forth
C25_Witness ==
    /\ owner = "handleGenerate" /\ pc = "fetch"
    /\ step = "confirm" /\ selectedNiche.present /\ selectedPlatform # NoPlatform

\* C26: `generating` is true exactly while a create call of handleGenerate is
\* outstanding, the Generate button is disabled while it is true, it is false
\* again after every outcome, and the wizard has navigated only on a success
\* result with data.
C26_GeneratingGuardsCreate ==
    /\ generating <=> owner = "handleGenerate"
    /\ (step = "confirm" /\ generating) => GenerateDisabled
    /\ navigated =>
           /\ ~generating
           /\ method = "POST" /\ path = "/jobs"
           /\ result.success /\ result.data # Undefined

\* a create call ended in a failure and the flag is down again
C26_Witness ==
    /\ ~generating /\ ~navigated /\ owner = "none"
    /\ method = "POST" /\ path = "/jobs" /\ fetchCount > 0 /\ ~result.success

\* C27: the request for /dashboard that follows a sign-in which returned true
\* is let through by the middleware.
C27_DashboardAfterSignIn == (fromLogin /\ hops = 0) => response.kind = "next"

\* C28: every dependsOn id of a step names a step of smaller `order`, and a
\* run in ascending `order` starts a step only when all its dependsOn steps
\* have completed.
C28_DependenciesPrecede ==
    /\ stepA # 0 =>
           \A d \in DependsOn(PIPELINE_STEPS[stepA]) :
             \E j \in DOMAIN PIPELINE_STEPS :
               /\ PIPELINE_STEPS[j].id = d
               /\ PIPELINE_STEPS[j].order < PIPELINE_STEPS[stepA].order
    /\ RemainingSteps # {} => DependsOn(NextStepToRun) \subseteq completedSteps

\* video_assembly, which depends on two steps, is about to start
C28_Witness ==
    /\ RemainingSteps # {} /\ NextStepToRun.id = "video_assembly"
    /\ stepA = 8

====
